---------------------------- MODULE Spec2Model ----------------------------
(***************************************************************************)
(* Arena simulation of supercell-gamehack-2026: tile grid, nav graph,      *)
(* build/destroy pipeline, rule engine, pathfinder and turret combat.      *)
(*                                                                         *)
(* World positions are kept at tile granularity: an actor's position is    *)
(* the tile the code derives from its Transform with                       *)
(*   ((p - tile_size * 0.5) / tile_size).floor() as u32.                   *)
(***************************************************************************)
EXTENDS Integers, Sequences, FiniteSets, TLC

VARIABLES
    occupants,  \* ArenaGrid.occupants: tile -> occupant [ty, owner]
    nav,        \* NavGraph.nodes: tile -> sequence of neighbour tiles
    pos,        \* tile of every actor's Transform
    inv,        \* Inventory of every actor: [obstacles, turrets]
    hp,         \* Hp.current of every actor
    status,     \* PlayerStatus (perception snapshot) of every actor
    target,     \* TargetDestination of every scripted actor
    changed,    \* change-detection tick of TargetDestination (Changed<T>)
    follower,   \* PathFollower of every scripted actor: [path, current_index]
    rules,      \* AiRuleSet of every scripted actor
    inputs,     \* number of controller inputs handled so far (bounded by MaxInputs)
    turrets,    \* Turret component of every turret entity, by its tile
    now,        \* Time::elapsed_secs, in whole seconds
    game_state, \* State<GameState>
    next_state, \* NextState<GameState>: the state requested, or "Unchanged"
    despawned,  \* actors whose entity has been despawned
    combat_ran, \* the combat system has run in the current frame
    spawners,   \* ResourceSpawner of every spawner entity, by its tile: [ty, timer]
    collectibles, \* the Collectible entities: [tile, ty]
    controller, \* MovementController.input_direction of every scripted actor
    before_build, \* history: the grid, graph and inventories before the user's last build
    last        \* history: the rules the last run of the rule engine executed,
                \* the events the last step added to the match log, and what
                \* the last step collected

vars == <<occupants, nav, pos, inv, hp, status, target, changed, follower, rules,
          inputs, turrets, now, game_state, next_state, despawned, combat_ran,
          spawners, collectibles, controller, before_build, last>>

\* What the systems outside combat leave alone.
combat_vars == <<now, game_state, next_state, despawned, combat_ran>>

\* What the systems outside resource pickup and path following leave alone.
world_vars == <<spawners, collectibles, controller>>

-----------------------------------------------------------------------------
(* Bounds *)

W == 3          \* ArenaConfig.width
H == 2          \* ArenaConfig.height
MaxInputs == 2  \* clicks and tile changes explored per behaviour
MaxHp == 3      \* Hp.max of every actor
MaxWalls == 2   \* occupied tiles of a drawn grid
MaxTime == 6    \* seconds of simulation time explored
respawn_time == 5  \* ResourceConfig.respawn_time, in seconds

-----------------------------------------------------------------------------
(* Program constants *)

TILE_SIZE == 4            \* ArenaConfig.tile_size
BUILD_MAX_DISTANCE == 15  \* building.rs
TURRET_COOLDOWN == 4      \* Turret::is_active, and the user's build
TURRET_DAMAGE == 1        \* combat.rs
TURRET_RANGE == 15        \* turret_shooting_system
PLAYER_SIZE_Y == 2        \* height of an actor's box; its Transform is at half of it
\* u32::MAX.  TLC's integers end at 2^31 - 1, which stands for 2^32 - 1 here:
\* the value a u32 counter wraps to below zero, and the default of a missing dist.
U32_MAX == 2147483647

Actors    == {"user", "ai", "enemy"}
AiPlayers == {"ai", "enemy"}          \* entities With<AiPlayer>
Users     == {"user"}                 \* entities With<User>

None == <<>>                          \* Option::None

Tiles  == (0 .. W - 1) \X (0 .. H - 1)     \* keys of ArenaGrid.tiles
Coords == (0 .. W) \X (0 .. H)             \* u32 pairs the model can hold

InBounds(c) == c[1] >= 0 /\ c[1] < W /\ c[2] >= 0 /\ c[2] < H

\* `f as u32` on a floored float: negative values saturate to 0.
AsU32(i) == IF i < 0 THEN 0 ELSE i

Abs(i) == IF i < 0 THEN -i ELSE i

Clamp(v, lo, hi) == IF v < lo THEN lo ELSE IF v > hi THEN hi ELSE v

-----------------------------------------------------------------------------
(* Nav graph *)

\* Fault: only the steps towards greater coordinates, so edges lack their reverse.
CardinalDirections_forward == << <<0, 1>>, <<1, 0>> >>

CardinalDirections == << <<0, 1>>, <<0, -1>>, <<1, 0>>, <<-1, 0>> >>

\* HashMap::insert / HashMap::remove on functions with a finite domain.
MapInsert(m, k, v) == [c \in DOMAIN m \cup {k} |-> IF c = k THEN v ELSE m[c]]
MapRemove(m, k)    == [c \in DOMAIN m \ {k} |-> m[c]]

\* arena::regenerate_nav_graph on a grid of the given ArenaConfig.width and
\* height: the graph is cleared and rebuilt from the grid.
regenerate_nav_graph_sized(width, height, occ) ==
    [t \in {u \in (0 .. width - 1) \X (0 .. height - 1) : u \notin DOMAIN occ} |->
        LET cand == [i \in 1 .. Len(CardinalDirections) |->
                        <<t[1] + CardinalDirections[i][1],
                          t[2] + CardinalDirections[i][2]>>]
            Keep(c) == /\ c[1] >= 0 /\ c[1] < width /\ c[2] >= 0 /\ c[2] < height
                       /\ c \notin DOMAIN occ
        IN  SelectSeq(cand, Keep)]

\* arena::regenerate_nav_graph on the grid of the match.
regenerate_nav_graph(occ) == regenerate_nav_graph_sized(W, H, occ)

AllDirections ==
    << <<0, 1>>, <<0, -1>>, <<1, 0>>, <<-1, 0>>, <<1, 1>>, <<1, -1>>, <<-1, 1>>, <<-1, -1>> >>

\* Fault: a diagonal step is kept whatever its two cardinal neighbours hold.
pathfinding_regenerate_nav_graph_cutting(width, height, occ) ==
    [t \in {u \in (0 .. width - 1) \X (0 .. height - 1) : u \notin DOMAIN occ} |->
        LET cand == [i \in 1 .. Len(AllDirections) |->
                        <<t[1] + AllDirections[i][1], t[2] + AllDirections[i][2]>>]
            Keep(c) == /\ c[1] >= 0 /\ c[1] < width /\ c[2] >= 0 /\ c[2] < height
                       /\ c \notin DOMAIN occ
        IN  SelectSeq(cand, Keep)]

\* pathfinding::regenerate_nav_graph on a grid of the given ArenaConfig.width
\* and height: eight directions, a diagonal step only between two free
\* cardinal neighbours.
pathfinding_regenerate_nav_graph_sized(width, height, occ) ==
    [t \in {u \in (0 .. width - 1) \X (0 .. height - 1) : u \notin DOMAIN occ} |->
        LET cand == [i \in 1 .. Len(AllDirections) |->
                        <<t[1] + AllDirections[i][1], t[2] + AllDirections[i][2]>>]
            Keep(c) == /\ c[1] >= 0 /\ c[1] < width /\ c[2] >= 0 /\ c[2] < height
                       /\ c \notin DOMAIN occ
                       /\ ~(/\ Abs(c[1] - t[1]) = 1
                            /\ Abs(c[2] - t[2]) = 1
                            /\ (<<t[1], c[2]>> \in DOMAIN occ \/ <<c[1], t[2]>> \in DOMAIN occ))
        IN  SelectSeq(cand, Keep)]

\* pathfinding::regenerate_nav_graph on the grid of the match.
pathfinding_regenerate_nav_graph(occ) == pathfinding_regenerate_nav_graph_sized(W, H, occ)

-----------------------------------------------------------------------------
(* Areas *)

\* The area table supplied with the layout, in declaration order: three
\* vertical bands of the grid.
AreaList ==
    << [id |-> "UserBase",    min_x |-> 0,     min_y |-> 0, max_x |-> 0,     max_y |-> H - 1],
       [id |-> "CenterArena", min_x |-> 1,     min_y |-> 0, max_x |-> W - 2, max_y |-> H - 1],
       [id |-> "EnemyBase",   min_x |-> W - 1, min_y |-> 0, max_x |-> W - 1, max_y |-> H - 1] >>

AreaIDs == {"UserBase", "EnemyBase", "CenterArena", "NorthCorridor", "SouthCorridor", "Unknown"}

\* Area::contains
contains(area, x, y) ==
    x >= area.min_x /\ x <= area.max_x /\ y >= area.min_y /\ y <= area.max_y

\* AreaMap::get_area_id: the first area, in declaration order, holding the point.
get_area_id(x, y) ==
    LET hits == {i \in 1 .. Len(AreaList) : contains(AreaList[i], x, y)}
    IN  IF hits = {} THEN "Unknown"
        ELSE AreaList[CHOOSE i \in hits : \A j \in hits : i <= j].id

\* AreaMap::get_center: midpoint of the first area with the id, or None.
get_center(id) ==
    LET hits == {i \in 1 .. Len(AreaList) : AreaList[i].id = id}
    IN  IF hits = {} THEN None
        ELSE LET a == AreaList[CHOOSE i \in hits : \A j \in hits : i <= j]
             IN  <<(a.min_x + a.max_x) \div 2, (a.min_y + a.max_y) \div 2>>

-----------------------------------------------------------------------------
(* Line of sight *)

RECURSIVE line_loop(_, _, _, _, _, _, _, _, _, _)
line_loop(x, y, err, dx, dy, sx, sy, x1, y1, points) ==
    LET pts == Append(points, <<x, y>>)
    IN  IF x = x1 /\ y = y1 THEN pts
        ELSE LET e2   == 2 * err
                 stepx == e2 >= dy
                 stepy == e2 <= dx
                 err1 == IF stepx THEN err + dy ELSE err
                 xn   == IF stepx THEN x + sx ELSE x
                 err2 == IF stepy THEN err1 + dx ELSE err1
                 yn   == IF stepy THEN y + sy ELSE y
             IN  line_loop(xn, yn, err2, dx, dy, sx, sy, x1, y1, pts)

\* pathfinding::get_line: Bresenham rasterisation from (x0,y0) to (x1,y1).
get_line(x0, y0, x1, y1) ==
    LET dx == Abs(x1 - x0)
        dy == -Abs(y1 - y0)
        sx == IF x0 < x1 THEN 1 ELSE -1
        sy == IF y0 < y1 THEN 1 ELSE -1
    IN  line_loop(x0, y0, dx + dy, dx, dy, sx, sy, x1, y1, <<>>)

\* pathfinding::has_line_of_sight between the tiles of two world points.
has_line_of_sight(start, end, occ) ==
    LET points == get_line(start[1], start[2], end[1], end[2])
    IN  \A i \in 1 .. Len(points) :
            \/ points[i] = start                    \* skip start tile
            \/ /\ InBounds(points[i])
               /\ points[i] \notin DOMAIN occ

-----------------------------------------------------------------------------
(* Pathfinder *)

\* ((h_dx^2 + h_dy^2).sqrt() * 10.0) as u32, tabulated on the squared distance.
\* The table reaches the squared distances of the match grid and those of a
\* grid of 5 by 5 tiles (4 * 4 + 4 * 4).
MaxSq ==
    LET m == (W + 1) * (W + 1) + (H + 1) * (H + 1)
    IN  IF m < 32 THEN 32 ELSE m
HeuristicTable ==
    [m \in 0 .. MaxSq |->
        CHOOSE r \in 0 .. 10 * (W + H + 2) : r * r <= 100 * m /\ (r + 1) * (r + 1) > 100 * m]

\* Ord for State: BinaryHeap::pop returns the greatest entry, which is the one
\* of least cost, then of greatest position.0, then of greatest position.1.
StateGreater(a, b) ==
    \/ a.cost < b.cost
    \/ a.cost = b.cost /\ a.position[1] > b.position[1]
    \/ a.cost = b.cost /\ a.position[1] = b.position[1] /\ a.position[2] > b.position[2]

HeapPop(heap) == CHOOSE s \in heap : \A o \in heap \ {s} : StateGreater(s, o)

\* Fault: a missing dist defaults to 0, so no neighbour is ever relaxed.
DistOf_default_zero(dist, n) == IF n \in DOMAIN dist THEN dist[n] ELSE 0

\* Lookup with default, as dist.get(..).unwrap_or(&u32::MAX).
DistOf(dist, n) == IF n \in DOMAIN dist THEN dist[n] ELSE U32_MAX

step_cost(position, neighbor) ==
    IF Abs(neighbor[1] - position[1]) + Abs(neighbor[2] - position[2]) = 2 THEN 14 ELSE 10

heuristic(neighbor, goal) ==
    LET h_dx == Abs(neighbor[1] - goal[1])
        h_dy == Abs(neighbor[2] - goal[2])
    IN  HeuristicTable[h_dx * h_dx + h_dy * h_dy]

\* The walk back along came_from from goal to start.
RECURSIVE reconstruct(_, _, _, _)
reconstruct(current, start, came_from, path) ==
    IF current = start THEN <<start>> \o path
    ELSE IF current \in DOMAIN came_from
         THEN reconstruct(came_from[current], start, came_from, <<current>> \o path)
         ELSE None

\* The for-loop over the neighbours of the popped position.
RECURSIVE relax(_, _, _, _, _)
relax(st, position, neighbors, i, goal) ==
    IF i > Len(neighbors) THEN st
    ELSE LET neighbor  == neighbors[i]
             current_g == st.dist[position]
             new_cost  == current_g + step_cost(position, neighbor)
         IN  IF new_cost < DistOf(st.dist, neighbor)
             THEN relax([dist      |-> MapInsert(st.dist, neighbor, new_cost),
                         heap      |-> st.heap \cup
                                         {[cost     |-> new_cost + heuristic(neighbor, goal),
                                           position |-> neighbor]},
                         came_from |-> MapInsert(st.came_from, neighbor, position)],
                        position, neighbors, i + 1, goal)
             ELSE relax(st, position, neighbors, i + 1, goal)

\* The while-let loop of find_path.  The heap is a set: an entry is pushed only
\* when dist[position] strictly drops, so no two entries are equal.
RECURSIVE search(_, _, _, _)
search(st, start, goal, graph) ==
    IF st.heap = {} THEN None
    ELSE LET top  == HeapPop(st.heap)
             rest == [st EXCEPT !.heap = st.heap \ {top}]
         IN  IF top.position = goal
             THEN reconstruct(goal, start, st.came_from, <<>>)
             ELSE IF top.position \in DOMAIN graph
                  THEN search(relax(rest, top.position, graph[top.position], 1, goal),
                              start, goal, graph)
                  ELSE search(rest, start, goal, graph)

\* pathfinding::find_path: Some(path) as a non-empty sequence, None as <<>>.
find_path(start, goal, graph) ==
    search([dist      |-> (start :> 0),
            heap      |-> {[cost |-> 0, position |-> start]},
            came_from |-> <<>>],
           start, goal, graph)

-----------------------------------------------------------------------------
(* Rules *)

CTrue              == [k |-> "True"]
CIsEnemyVisible    == [k |-> "IsEnemyVisible"]
CIsHealthLow(t)    == [k |-> "IsHealthLow", threshold |-> t]
CInArea(id)        == [k |-> "InArea", area |-> id]
CHasItem(item, n)  == [k |-> "HasItem", item |-> item, count |-> n]
CIsUnderAttack     == [k |-> "IsUnderAttack"]
CAnd(cs)           == [k |-> "And", cs |-> cs]
COr(cs)            == [k |-> "Or", cs |-> cs]
CNot(c)            == [k |-> "Not", c |-> c]

AMoveToArea(id)    == [k |-> "MoveToArea", area |-> id]
AChaseEnemy        == [k |-> "ChaseEnemy"]
AFlee              == [k |-> "Flee"]
ABuild(structure)  == [k |-> "Build", structure |-> structure, direction |-> "None"]
AIdle              == [k |-> "Idle"]

Rule(name, priority, condition, action) ==
    [name |-> name, priority |-> priority, condition |-> condition, action |-> action]

\* RuleSet::default()
DefaultRuleSet ==
    << Rule("RetreatToSafety", 100, CIsHealthLow(1), AMoveToArea("EnemyBase")),
       Rule("DeployCombatTurret", 95,
            CAnd(<<CIsEnemyVisible, CHasItem("turret", 1)>>), ABuild("Turret")),
       Rule("EngageEnemy", 80, CIsEnemyVisible, AChaseEnemy),
       Rule("FortifyCenter", 50,
            CAnd(<<CInArea("CenterArena"), CHasItem("obstacle", 1)>>), ABuild("Obstacle")),
       Rule("ClaimCenter", 20, CNot(CInArea("CenterArena")), AMoveToArea("CenterArena")),
       Rule("InvadePlayerBase", 10, CInArea("CenterArena"), AMoveToArea("UserBase")) >>

\* RuleSet::new_turret_only()
TurretOnlyRuleSet ==
    << Rule("DebugBuildTurret", 100, CHasItem("turret", 1), ABuild("Turret")) >>

\* Rule sets an external author can send with UpdateRuleSet: declaration order
\* differs from priority order, priorities repeat, and every action occurs.
FleeRuleSet ==
    << Rule("Wander", 10, CTrue, AMoveToArea("CenterArena")),
       Rule("Chase", 50, CIsEnemyVisible, AChaseEnemy),
       Rule("Flee", 100, CIsHealthLow(1), AFlee),
       Rule("Fortify", 50, COr(<<CHasItem("obstacle", 1), CIsUnderAttack>>), ABuild("Obstacle")) >>

TieRuleSet ==
    << Rule("Corridor", 30, CTrue, AMoveToArea("NorthCorridor")),
       Rule("Block", 70, CHasItem("obstacle", 1), ABuild("Obstacle")),
       Rule("Arm", 70, CHasItem("turret", 1), ABuild("Turret")),
       Rule("Run", 70, CIsEnemyVisible, AFlee),
       Rule("Coin", 90, CHasItem("coin", 0), AIdle),
       Rule("Home", 30, CNot(CIsEnemyVisible), AMoveToArea("EnemyBase")),
       Rule("Wall", 20, CTrue, ABuild("Wall")),
       Rule("Rest", 20, CTrue, AIdle) >>

RuleSets == {DefaultRuleSet, TurretOnlyRuleSet, FleeRuleSet, TieRuleSet}

\* ai::evaluate_condition
RECURSIVE evaluate_condition(_, _, _, _)
evaluate_condition(condition, st, hpc, inventory) ==
    CASE condition.k = "True"           -> TRUE
      [] condition.k = "IsEnemyVisible" -> st.visible_players # {}
      [] condition.k = "IsHealthLow"    -> hpc <= condition.threshold
      [] condition.k = "InArea"         -> st.current_area_id = condition.area
      [] condition.k = "HasItem"        ->
            CASE condition.item = "obstacle" -> inventory.obstacles >= condition.count
              [] condition.item = "turret"   -> inventory.turrets >= condition.count
              [] OTHER                       -> FALSE
      [] condition.k = "IsUnderAttack"  -> FALSE
      [] condition.k = "And"            ->
            \A i \in 1 .. Len(condition.cs) :
                evaluate_condition(condition.cs[i], st, hpc, inventory)
      [] condition.k = "Or"             ->
            \E i \in 1 .. Len(condition.cs) :
                evaluate_condition(condition.cs[i], st, hpc, inventory)
      [] condition.k = "Not"            ->
            ~evaluate_condition(condition.c, st, hpc, inventory)

\* Insertion of declaration index i into a sequence already sorted by priority
\* descending, behind every entry that does not compare greater (stability).
RECURSIVE insert_sorted(_, _, _)
insert_sorted(rs, s, i) ==
    IF s = <<>> THEN <<i>>
    ELSE IF rs[Head(s)].priority >= rs[i].priority
         THEN <<Head(s)>> \o insert_sorted(rs, Tail(s), i)
         ELSE <<i>> \o s

RECURSIVE sort_from(_, _, _)
sort_from(rs, s, i) ==
    IF i > Len(rs) THEN s ELSE sort_from(rs, insert_sorted(rs, s, i), i + 1)

\* Fault: the rules are left in declaration order.
unsorted_rules(rs) == [i \in 1 .. Len(rs) |-> i]

\* sorted_rules.sort_by(|a, b| b.priority.cmp(&a.priority)): a stable sort by
\* priority descending, given as the declaration indices in sorted order.
sorted_rules(rs) == sort_from(rs, <<>>, 1)

\* Fault: the loop has no break, and every matching rule is executed.
RECURSIVE all_matches(_, _, _, _, _, _)
all_matches(rs, sorted, k, st, hpc, inventory) ==
    IF k > Len(sorted) THEN <<>>
    ELSE (IF evaluate_condition(rs[sorted[k]].condition, st, hpc, inventory)
          THEN <<sorted[k]>> ELSE <<>>)
         \o all_matches(rs, sorted, k + 1, st, hpc, inventory)

\* The for-loop over sorted_rules with its break: the declaration indices of
\* the rules whose action is executed, in execution order.
RECURSIVE first_match(_, _, _, _, _, _)
first_match(rs, sorted, k, st, hpc, inventory) ==
    IF k > Len(sorted) THEN <<>>
    ELSE IF evaluate_condition(rs[sorted[k]].condition, st, hpc, inventory)
         THEN <<sorted[k]>>                                   \* break
         ELSE first_match(rs, sorted, k + 1, st, hpc, inventory)

-----------------------------------------------------------------------------
(* Rule engine *)

\* `inventory.x -= 1` on a u32 (wrapping).
Dec(n) == IF n = 0 THEN U32_MAX ELSE n - 1

Obstacle(owner) == [ty |-> "Obstacle", owner |-> owner]
Turret(owner)   == [ty |-> "Turret", owner |-> owner]
WallOccupant    == [ty |-> "Wall", owner |-> "none"]

\* The Turret component spawned with a turret, and the height of its
\* Transform in tenths of a unit.
TurretComponent(owner, direction, last_shot, y) ==
    [owner |-> owner, direction |-> direction, last_shot |-> last_shot, y |-> y]

\* The cardinal direction of the horizontal vector (x, z): z decides unless
\* |x| is strictly greater.
cardinal_of(x, z) ==
    IF Abs(x) > Abs(z)
    THEN (IF x > 0 THEN "East" ELSE "West")
    ELSE (IF z > 0 THEN "South" ELSE "North")

\* The direction of a scripted turret: the rule's, else towards the nearest
\* enemy, else South.
ai_turret_direction(a, direction) ==
    IF direction # "None" THEN direction
    ELSE IF status[a].nearest_enemy_position # None
         THEN cardinal_of(status[a].nearest_enemy_position[1] - pos[a][1],
                          status[a].nearest_enemy_position[2] - pos[a][2])
         ELSE "South"

\* Fault: the target is assigned without the comparison.
write_target_always(w, a, c) == [w EXCEPT !.target[a] = c, !.changed[a] = TRUE]

\* if target.x != x || target.y != y { target.x = x; target.y = y; }
\* Reading through Mut<T> leaves the change tick alone; the assignment sets it.
write_target(w, a, c) ==
    IF w.target[a][1] # c[1] \/ w.target[a][2] # c[2]
    THEN [w EXCEPT !.target[a] = c, !.changed[a] = TRUE]
    ELSE w

\* Action::Flee: the target away from the nearest enemy.
flee_target(my, enemy) ==
    LET dx == my[1] - enemy[1]
        dy == my[2] - enemy[2]
    IN  <<AsU32(Clamp(my[1] + dx, 0, W)), AsU32(Clamp(my[2] + dy, 0, H))>>

\* Fault: the build does not look whether the tile is occupied.
ai_build_unchecked(w, a, structure, direction) ==
    LET tile == pos[a]
    IN  CASE structure = "Obstacle" ->
                IF w.inv[a].obstacles > 0
                THEN LET occ == MapInsert(w.occupants, tile, Obstacle(a))
                     IN  [w EXCEPT !.inv[a].obstacles = Dec(@),
                                   !.occupants = occ,
                                   !.nav = regenerate_nav_graph(occ)]
                ELSE w
          [] structure = "Turret" ->
                IF w.inv[a].turrets > 0
                THEN LET occ == MapInsert(w.occupants, tile, Turret(a))
                         t   == TurretComponent(a, ai_turret_direction(a, direction), 0, 10)
                     IN  [w EXCEPT !.inv[a].turrets = Dec(@),
                                   !.turrets = MapInsert(w.turrets, tile, t),
                                   !.occupants = occ,
                                   !.nav = regenerate_nav_graph(occ)]
                ELSE w
          [] OTHER -> w

\* Action::Build at the actor's own tile.
ai_build(w, a, structure, direction) ==
    LET tile == pos[a]
    IN  IF tile \in DOMAIN w.occupants THEN w
        ELSE CASE structure = "Obstacle" ->
                    IF w.inv[a].obstacles > 0
                    THEN LET occ == MapInsert(w.occupants, tile, Obstacle(a))
                         IN  [w EXCEPT !.inv[a].obstacles = Dec(@),
                                       !.occupants = occ,
                                       !.nav = regenerate_nav_graph(occ)]
                    ELSE w
               [] structure = "Turret" ->
                    IF w.inv[a].turrets > 0
                    THEN LET occ == MapInsert(w.occupants, tile, Turret(a))
                             t   == TurretComponent(a, ai_turret_direction(a, direction), 0, 10)
                         IN  [w EXCEPT !.inv[a].turrets = Dec(@),
                                       !.turrets = MapInsert(w.turrets, tile, t),
                                       !.occupants = occ,
                                       !.nav = regenerate_nav_graph(occ)]
                    ELSE w
               [] OTHER -> w

\* The match on rule.action.
execute_action(w, a, action) ==
    CASE action.k = "MoveToArea" ->
            LET c == get_center(action.area)
            IN  IF c # None THEN write_target(w, a, c) ELSE w
      [] action.k = "ChaseEnemy" ->
            IF status[a].nearest_enemy_position # None
            THEN write_target(w, a, status[a].nearest_enemy_position)
            ELSE w
      [] action.k = "Flee" ->
            IF status[a].nearest_enemy_position # None
            THEN write_target(w, a, flee_target(pos[a], status[a].nearest_enemy_position))
            ELSE w
      [] action.k = "Build" -> ai_build(w, a, action.structure, action.direction)
      [] action.k = "Idle" -> w

RECURSIVE execute_all(_, _, _, _)
execute_all(w, a, ex, i) ==
    IF i > Len(ex) THEN w
    ELSE execute_all(execute_action(w, a, rules[a][ex[i]].action), a, ex, i + 1)

\* The body of the loop over the scripted actors, for one actor.
evaluate_actor(w, a) ==
    IF a \in despawned THEN w
    ELSE LET ex == first_match(rules[a], sorted_rules(rules[a]), 1, status[a], hp[a], w.inv[a])
         IN  [execute_all(w, a, ex, 1) EXCEPT !.executed[a] = ex]

RECURSIVE evaluate_actors(_, _, _)
evaluate_actors(w, order, i) ==
    IF i > Len(order) THEN w
    ELSE evaluate_actors(evaluate_actor(w, order[i]), order, i + 1)

NoneExecuted == [a \in AiPlayers |-> <<>>]
NoneCollected == [a \in Actors |-> {}]
NoRuleRun    == [rules_ran |-> FALSE, executed |-> NoneExecuted, events |-> <<>>,
                 respawn_ran |-> FALSE, collected |-> NoneCollected]

Orders == {o \in [1 .. Cardinality(AiPlayers) -> AiPlayers] :
              \A a \in AiPlayers : \E i \in DOMAIN o : o[i] = a}

\* ai::rule_evaluation_system: one run over every scripted actor, in the
\* query's iteration order.
rule_evaluation_system ==
    LET w0 == [occupants |-> occupants, nav |-> nav, inv |-> inv, turrets |-> turrets,
               target |-> target, changed |-> changed, executed |-> NoneExecuted]
    IN  \E w \in {evaluate_actors(w0, order, 1) : order \in Orders} :
            /\ occupants' = w.occupants
            /\ nav' = w.nav
            /\ inv' = w.inv
            /\ target' = w.target
            /\ changed' = w.changed
            /\ turrets' = w.turrets
            /\ before_build' = None
            /\ last' = [NoRuleRun EXCEPT !.rules_ran = TRUE, !.executed = w.executed]
            /\ UNCHANGED <<pos, hp, status, follower, rules, inputs, combat_vars, world_vars>>

-----------------------------------------------------------------------------
(* Build / destroy by the user *)

\* Tiles the build ghost can be snapped to: the grid and one tile beyond it.
\* (A ghost left of or above the grid lands on column or row 0 by AsU32.)
AimTiles == (0 .. W) \X (0 .. H)

SelectedBuildTypes == {"Obstacle", "Turret", "Wall"}

\* Mouse buttons just pressed, with the selected build type (read by the
\* right-click branch only).
Clicks ==
    [right : {TRUE}, left : BOOLEAN, selected : SelectedBuildTypes]
        \cup {[right |-> FALSE, left |-> TRUE, selected |-> "Obstacle"]}

\* The cardinal directions the user's forward vector can fall into.
TurretDirections == {"North", "East", "South", "West"}

\* update_build_preview: the ghost is visible when the snapped tile centre is
\* within BUILD_MAX_DISTANCE of the player.
in_range(player, aim) ==
    LET dx == TILE_SIZE * (aim[1] - player[1])
        dy == TILE_SIZE * (aim[2] - player[2])
    IN  dx * dx + dy * dy <= BUILD_MAX_DISTANCE * BUILD_MAX_DISTANCE

\* Fault: the right-click branch without its inventory checks.
build_click_unguarded(tile, selected, facing) ==
    LET w0 == [occupants |-> occupants, inv |-> inv, turrets |-> turrets,
               graph_dirty |-> FALSE, returned |-> FALSE]
        t  == TurretComponent("user", facing, now - TURRET_COOLDOWN, 16)
        Return == [w0 EXCEPT !.returned = TRUE]
    IN  IF tile \in DOMAIN occupants THEN Return
        ELSE IF \E p \in Users : pos[p] = tile THEN Return
        ELSE CASE selected = "Obstacle" ->
                    [w0 EXCEPT !.occupants = MapInsert(occupants, tile, Obstacle("user")),
                               !.inv["user"].obstacles = Dec(@),
                               !.graph_dirty = TRUE]
               [] selected = "Turret" ->
                    [w0 EXCEPT !.occupants = MapInsert(occupants, tile, Turret("user")),
                               !.turrets = MapInsert(turrets, tile, t),
                               !.inv["user"].turrets = Dec(@)]
               [] OTHER -> w0

\* The right-click branch of handle_build_input.  `returned` is set where the
\* code returns from the whole system.
build_click(tile, selected, facing) ==
    LET w0 == [occupants |-> occupants, inv |-> inv, turrets |-> turrets,
               graph_dirty |-> FALSE, returned |-> FALSE]
        t  == TurretComponent("user", facing, now - TURRET_COOLDOWN, 16)
        Return == [w0 EXCEPT !.returned = TRUE]
        players_at_target == \E p \in Users : pos[p] = tile
    IN  IF tile \in DOMAIN occupants THEN Return
        ELSE IF players_at_target THEN Return
        ELSE CASE selected = "Obstacle" ->
                    IF inv["user"].obstacles = 0 THEN Return
                    ELSE [w0 EXCEPT !.occupants = MapInsert(occupants, tile, Obstacle("user")),
                                    !.inv["user"].obstacles = Dec(@),
                                    !.graph_dirty = TRUE]
               [] selected = "Turret" ->
                    IF inv["user"].turrets = 0 THEN Return
                    ELSE [w0 EXCEPT !.occupants = MapInsert(occupants, tile, Turret("user")),
                                    !.turrets = MapInsert(turrets, tile, t),
                                    !.inv["user"].turrets = Dec(@)]
               [] OTHER -> w0

\* The left-click branch of handle_build_input.
destroy_click(w, tile) ==
    IF tile \in DOMAIN w.occupants
    THEN [occupants |-> MapRemove(w.occupants, tile),
          turrets |-> MapRemove(w.turrets, tile), graph_dirty |-> TRUE]
    ELSE [occupants |-> w.occupants, turrets |-> w.turrets, graph_dirty |-> w.graph_dirty]

\* if graph_dirty { regenerate_nav_graph(..); for target in ai_query { set_changed } }
after_build(graph_dirty, occ) ==
    IF graph_dirty
    THEN [nav |-> regenerate_nav_graph(occ), changed |-> [a \in AiPlayers |-> TRUE]]
    ELSE [nav |-> nav, changed |-> changed]

\* building::handle_build_input, for a visible ghost snapped to `aim` with the
\* given mouse buttons just pressed and build type selected.
handle_build_input(aim, right, left, selected, facing) ==
    /\ inputs < MaxInputs
    /\ inputs' = inputs + 1
    /\ in_range(pos["user"], aim)          \* a hidden ghost: the system returns
    /\ right \/ left
    /\ LET tile == <<AsU32(aim[1]), AsU32(aim[2])>>
           idle == [occupants |-> occupants, inv |-> inv, turrets |-> turrets,
                    graph_dirty |-> FALSE, returned |-> FALSE]
           b    == IF right THEN build_click(tile, selected, facing) ELSE idle
           d    == IF left /\ ~b.returned THEN destroy_click(b, tile)
                   ELSE [occupants |-> b.occupants, turrets |-> b.turrets,
                         graph_dirty |-> b.graph_dirty]
           g    == after_build(d.graph_dirty /\ ~b.returned, d.occupants)
       IN  /\ occupants' = d.occupants
           /\ turrets' = d.turrets
           /\ inv' = b.inv
           /\ nav' = g.nav
           /\ changed' = g.changed
           /\ before_build' =
                  IF b.occupants # occupants
                  THEN <<[tile |-> tile, kind |-> selected, occupants |-> occupants,
                          nav |-> nav, inv |-> inv]>>
                  ELSE None
           /\ last' = NoRuleRun
    /\ UNCHANGED <<pos, hp, status, target, follower, rules, combat_vars, world_vars>>

-----------------------------------------------------------------------------
(* Perception, pathfinding, movement *)

SqDist(p, q) == (p[1] - q[1]) * (p[1] - q[1]) + (p[2] - q[2]) * (p[2] - q[2])

\* The actors in line of sight of `a` (update_player_visibility).
visible_from(a) ==
    {o \in (Actors \ despawned) \ {a} : has_line_of_sight(pos[a], pos[o], occupants)}

\* The perception snapshots a run can produce: the visible actors, one of the
\* nearest of them, and the area of the actor's tile.
Snapshots(a) ==
    LET vis == visible_from(a)
        near == {o \in vis : \A o2 \in vis : SqDist(pos[a], pos[o]) <= SqDist(pos[a], pos[o2])}
    IN  IF vis = {}
        THEN {[visible_players |-> {}, nearest_enemy_position |-> None,
               current_area_id |-> get_area_id(pos[a][1], pos[a][2])]}
        ELSE {[visible_players |-> vis, nearest_enemy_position |-> pos[o],
               current_area_id |-> get_area_id(pos[a][1], pos[a][2])] : o \in near}

update_player_status ==
    /\ \E su \in Snapshots("user"), sa \in Snapshots("ai"), se \in Snapshots("enemy") :
          status' = [user |-> su, ai |-> sa, enemy |-> se]
    /\ status' # status
    /\ before_build' = None
    /\ last' = NoRuleRun
    /\ UNCHANGED <<occupants, nav, pos, inv, hp, target, changed, follower, rules, inputs,
                   turrets, combat_vars, world_vars>>

\* ai::pathfinding_system: every scripted actor whose TargetDestination changed
\* since the last run gets a new PathFollower when a path is found.
new_follower(a) ==
    LET path == find_path(pos[a], target[a], nav)
    IN  IF a \notin despawned /\ changed[a] /\ path # None
        THEN [path |-> path, current_index |-> 0]
        ELSE follower[a]

pathfinding_system ==
    /\ {a \in AiPlayers \ despawned : changed[a]} # {}
    /\ follower' = [a \in AiPlayers |-> new_follower(a)]
    /\ changed' = [a \in AiPlayers |-> IF a \in despawned THEN changed[a] ELSE FALSE]
    /\ before_build' = None
    /\ last' = NoRuleRun
    /\ UNCHANGED <<occupants, nav, pos, inv, hp, status, target, rules, inputs,
                   turrets, combat_vars, world_vars>>

MoveDirections == {<<0, 1>>, <<0, -1>>, <<1, 0>>, <<-1, 0>>}

\* player::execute_movement for one actor whose controller holds a non-zero
\* input direction, at the moment its tile changes; steps are explored inside
\* the grid.
execute_movement(a, d) ==
    /\ a \notin despawned
    /\ inputs < MaxInputs
    /\ inputs' = inputs + 1
    /\ InBounds(<<pos[a][1] + d[1], pos[a][2] + d[2]>>)
    /\ pos' = [pos EXCEPT ![a] = <<pos[a][1] + d[1], pos[a][2] + d[2]>>]
    /\ before_build' = None
    /\ last' = NoRuleRun
    /\ UNCHANGED <<occupants, nav, inv, hp, status, target, changed, follower, rules,
                   turrets, combat_vars, world_vars>>

\* The tiles an actor can be on while it is closer than half a unit to the
\* centre of the tile `node`: the centre is the corner of the four tiles the
\* floor() of the tile derivation tells apart.
tiles_around(node) ==
    {<<node[1] - dx, node[2] - dz>> : dx \in {0, 1}, dz \in {0, 1}}

\* The body of the loop of path_following_system, for the actor `a`: a spent
\* path zeroes the input, a node reached advances the index, and otherwise
\* the input points at the node.  `reached` says whether the actor is within
\* 0.5 of the node, which its tile allows but does not decide.
follow(a, reached) ==
    LET f == follower[a]
    IN  IF f.current_index >= Len(f.path)
        THEN [follower |-> f, controller |-> "Zero"]
        ELSE IF reached /\ pos[a] \in tiles_around(f.path[f.current_index + 1])
             THEN [follower |-> [f EXCEPT !.current_index = f.current_index + 1],
                   controller |-> controller[a]]
             ELSE [follower |-> f, controller |-> "Move"]

\* ai::path_following_system: one run over every scripted actor.
path_following_system(reached) ==
    /\ follower' = [a \in AiPlayers |->
                        IF a \in despawned THEN follower[a] ELSE follow(a, reached[a]).follower]
    /\ controller' = [a \in AiPlayers |->
                        IF a \in despawned THEN controller[a] ELSE follow(a, reached[a]).controller]
    /\ before_build' = None
    /\ last' = NoRuleRun
    /\ UNCHANGED <<occupants, nav, pos, inv, hp, status, target, changed, rules, inputs,
                   turrets, combat_vars, spawners, collectibles>>

\* player::execute_movement for a scripted actor: its tile changes only while
\* its controller holds the input the path follower gave it.
follow_movement(a, d) ==
    /\ controller[a] = "Move"
    /\ execute_movement(a, d)

-----------------------------------------------------------------------------
(* Resources *)

\* The body of the loop of resource_respawn_system, for one spawner: a timer
\* above zero runs down by the frame's delta, any other is left alone.
tick_spawner(spawner, dt) ==
    IF spawner.timer > 0 THEN [spawner EXCEPT !.timer = spawner.timer - dt] ELSE spawner

\* The spawners whose timer runs out in a frame of `dt` seconds.
expired(dt) ==
    {t \in DOMAIN spawners : spawners[t].timer > 0 /\ spawners[t].timer - dt <= 0}

\* arena::resource_respawn_system, in a frame of `dt` seconds: a spawner whose
\* timer runs out spawns one collectible of its kind on its tile.
resource_respawn_system(dt) ==
    /\ spawners' = [t \in DOMAIN spawners |-> tick_spawner(spawners[t], dt)]
    /\ collectibles' = collectibles \cup
                           {[tile |-> t, ty |-> spawners[t].ty] : t \in expired(dt)}
    /\ before_build' = None
    /\ last' = [NoRuleRun EXCEPT !.respawn_ran = TRUE]
    /\ UNCHANGED <<occupants, nav, pos, inv, hp, status, target, changed, follower, rules,
                   inputs, turrets, combat_vars, controller>>

\* player_pos.distance(collectible_pos) < 2.0 can hold only for an actor on
\* the collectible's tile or on the tile before it along either axis; where
\* in its tile the actor stands decides.
can_collect(a, c) ==
    /\ a \notin despawned
    /\ pos[a] \in tiles_around(c.tile)

\* The number of collectibles of the type `ty` in the set `cs`.
collected(cs, ty) == Cardinality({c \in cs : c.ty = ty})

\* player::update_inventory, `near` giving the collectibles each actor is
\* closer than 2.0 to: every actor is credited with those near it, from the
\* one list of collectibles made before the loop, and they are despawned
\* after the run.
update_inventory(near) ==
    /\ \A a \in Actors : \A c \in near[a] : can_collect(a, c)
    /\ \E a \in Actors : near[a] # {}
    /\ inv' = [a \in Actors |->
                  [obstacles |-> inv[a].obstacles + collected(near[a], "Obstacle"),
                   turrets   |-> inv[a].turrets + collected(near[a], "Turret")]]
    /\ collectibles' = collectibles \ UNION {near[a] : a \in Actors}
    /\ before_build' = None
    /\ last' = [NoRuleRun EXCEPT !.collected = near]
    /\ UNCHANGED <<occupants, nav, pos, hp, status, target, changed, follower, rules,
                   inputs, turrets, combat_vars, spawners, controller>>

-----------------------------------------------------------------------------
(* Combat *)

\* Hp::take_damage: saturating subtraction.
take_damage(current, amount) == IF current < amount THEN 0 ELSE current - amount

\* Fault: an actor without HP left counts as alive.
is_alive_at_zero(current) == current >= 0

\* Hp::is_alive
is_alive(current) == current > 0

\* Fault: a turret is ready whatever the time of its last shot.
is_active_always(t, current_time) == TRUE

\* Turret::is_active
is_active(t, current_time) == current_time - t.last_shot >= TURRET_COOLDOWN

\* TurretDirection::to_vec3, as (x, z).
to_vec3(direction) ==
    CASE direction = "North" -> <<0, -1>>
      [] direction = "East"  -> <<1, 0>>
      [] direction = "South" -> <<0, 1>>
      [] direction = "West"  -> <<-1, 0>>

\* to_target = target_pos - turret_pos in tenths of a unit, as (x, y, z), for a
\* turret on `tile` and an actor on the tile `p`.
to_target(tile, t, p) ==
    <<10 * TILE_SIZE * (p[1] - tile[1]),
      5 * PLAYER_SIZE_Y - t.y,
      10 * TILE_SIZE * (p[2] - tile[2])>>

length_squared(v) == v[1] * v[1] + v[2] * v[2] + v[3] * v[3]

\* distance < 15.0 && to_target.normalize().dot(direction_vec) > 0.707, in
\* integers: with par the component along the direction,
\* par / |v| > 0.707  iff  par > 0 and 499849 * (|v|^2 - 2 par^2) < 302 * par^2.
in_cone(tile, t, p) ==
    LET v    == to_target(tile, t, p)
        dir  == to_vec3(t.direction)
        par  == v[1] * dir[1] + v[3] * dir[2]
        rest == length_squared(v) - 2 * par * par
    IN  /\ length_squared(v) < 100 * TURRET_RANGE * TURRET_RANGE
        /\ par > 0
        /\ \/ rest <= 0
           \/ rest <= 4000 /\ 499849 * rest < 302 * par * par

\* The loop over target_query for one turret: the closest actor with Hp in the
\* cone, the owner excepted; of several at the same distance the one the
\* query yields first: Some(a) as <<a>>, None when no actor qualifies.
closest_target(tile, t, rank) ==
    LET elig == {a \in Actors \ despawned : a # t.owner /\ in_cone(tile, t, pos[a])}
        dist(a) == length_squared(to_target(tile, t, pos[a]))
        near == {a \in elig : \A b \in elig : dist(a) <= dist(b)}
    IN  IF elig = {} THEN None
        ELSE <<CHOOSE a \in near : \A b \in near : rank[a] <= rank[b]>>

DamageDealt(attacker, victim, tile) ==
    [k |-> "DamageDealt", attacker |-> attacker, victim |-> victim, turret |-> tile]

PlayerEliminated(entity, killer) ==
    [k |-> "PlayerEliminated", entity |-> entity, killer |-> killer]

\* The body of the loop over turret_query, for the turret on `tile`.  The
\* Turret components read are those of the start of the run: the insert of
\* the new last_shot and the despawn are commands, applied after the run.
shoot(w, tile, rank) ==
    LET t   == turrets[tile]
        closest == closest_target(tile, t, rank)
    IN  IF ~is_active(t, now) \/ closest = None THEN w
        ELSE LET tgt  == closest[1]
                 current == take_damage(w.hp[tgt], TURRET_DAMAGE)
                 hit  == DamageDealt(t.owner, tgt, tile)
                 gone == IF is_alive(current) THEN <<>>
                         ELSE <<PlayerEliminated(tgt, t.owner)>>
             IN  [hp         |-> [w.hp EXCEPT ![tgt] = current],
                  turrets    |-> [w.turrets EXCEPT ![tile].last_shot = now],
                  events     |-> w.events \o <<hit>> \o gone,
                  next_state |-> IF ~is_alive(current) /\ tgt \in Users
                                 THEN "GameOver" ELSE w.next_state,
                  despawn    |-> IF ~is_alive(current) /\ tgt \notin Users
                                 THEN w.despawn \cup {tgt} ELSE w.despawn]

RECURSIVE shoot_all(_, _, _, _)
shoot_all(w, order, i, rank) ==
    IF i > Len(order) THEN w
    ELSE shoot_all(shoot(w, order[i], rank), order, i + 1, rank)

\* The orders in which a query can yield the members of a set.
QueryOrders(S) ==
    {o \in [1 .. Cardinality(S) -> S] : \A x \in S : \E i \in DOMAIN o : o[i] = x}

\* The ranks a query can give the actors.
QueryRanks ==
    {r \in [Actors -> 1 .. Cardinality(Actors)] : \A a, b \in Actors : a # b => r[a] # r[b]}

\* Fault: the run condition holds in every game state.
in_state_any(state) == TRUE

\* The run condition in_state(GameState::..) of CombatPlugin.
in_state(state) == game_state = state

\* combat::turret_shooting_system, which runs once a frame while the game
\* state is Playing.
turret_shooting_system ==
    /\ in_state("Playing")
    /\ ~combat_ran
    /\ LET w0 == [hp |-> hp, turrets |-> turrets, events |-> <<>>,
                  next_state |-> next_state, despawn |-> {}]
       IN  \E w \in {shoot_all(w0, order, 1, rank) :
                        order \in QueryOrders(DOMAIN turrets), rank \in QueryRanks} :
              /\ hp' = w.hp
              /\ turrets' = w.turrets
              /\ next_state' = w.next_state
              /\ despawned' = despawned \cup w.despawn
              /\ last' = [NoRuleRun EXCEPT !.events = w.events]
    /\ combat_ran' = TRUE
    /\ before_build' = None
    /\ UNCHANGED <<occupants, nav, pos, inv, status, target, changed, follower, rules,
                   inputs, now, game_state, world_vars>>

\* The time a frame can take, in seconds.
FrameTimes == {2, 4}

\* A time well into a match, from which MaxTime seconds more are explored.
MidMatch == 2 * MaxTime

\* Fault: a frame that starts without a requested transition puts the game
\* state back to Playing.
begin_frame_restart(dt) ==
    /\ now + dt <= (IF now < MidMatch THEN MaxTime ELSE MidMatch + MaxTime)
    /\ now' = now + dt
    /\ game_state' = IF next_state # "Unchanged" THEN next_state ELSE "Playing"
    /\ next_state' = "Unchanged"
    /\ combat_ran' = FALSE
    /\ before_build' = None
    /\ last' = NoRuleRun
    /\ UNCHANGED <<occupants, nav, pos, inv, hp, status, target, changed, follower, rules,
                   inputs, turrets, despawned, world_vars>>

\* The start of a frame: the clock advances and the requested state
\* transition, if any, is applied before the systems of the frame run.
begin_frame(dt) ==
    /\ now + dt <= (IF now < MidMatch THEN MaxTime ELSE MidMatch + MaxTime)
    /\ now' = now + dt
    /\ game_state' = IF next_state # "Unchanged" THEN next_state ELSE game_state
    /\ next_state' = "Unchanged"
    /\ combat_ran' = FALSE
    /\ before_build' = None
    /\ last' = NoRuleRun
    /\ UNCHANGED <<occupants, nav, pos, inv, hp, status, target, changed, follower, rules,
                   inputs, turrets, despawned, world_vars>>

-----------------------------------------------------------------------------
(* Initial state and next-state relation *)

\* Occupants of the layout: one wall tile.
LayoutWalls == {<<1, H - 1>>}

FreeTiles == Tiles \ LayoutWalls

SpawnPoints == [user |-> <<0, 0>>, ai |-> <<W - 1, 0>>, enemy |-> <<W - 1, H - 1>>]

\* Inventories at the start of a match.
StartInventories ==
    { [user  |-> [obstacles |-> 1, turrets |-> 0],
       ai    |-> [obstacles |-> 1, turrets |-> 0],
       enemy |-> [obstacles |-> 0, turrets |-> 1]],
      [user  |-> [obstacles |-> 0, turrets |-> 1],
       ai    |-> [obstacles |-> 0, turrets |-> 1],
       enemy |-> [obstacles |-> 1, turrets |-> 0]] }

DefaultStatus ==
    [visible_players |-> {}, nearest_enemy_position |-> None, current_area_id |-> "Unknown"]

NoFollower == [path |-> <<>>, current_index |-> 0]

\* The layout's resource spawners: one for turrets beside the user's spawn point.
LayoutSpawners == [t \in {<<1, 0>>} |-> "Turret"]

\* spawn_arena: every spawner with timer 0, no collectible; and the default
\* MovementController of every scripted actor.
Loaded ==
    /\ spawners = [t \in DOMAIN LayoutSpawners |-> [ty |-> LayoutSpawners[t], timer |-> 0]]
    /\ collectibles = {}
    /\ controller = [a \in AiPlayers |-> "Zero"]

\* No turret stands, the clock is at 0, the game is being played, and the
\* spawners are as loaded.
NoCombat ==
    /\ turrets = <<>>
    /\ now = 0
    /\ game_state = "Playing"
    /\ next_state = "Unchanged"
    /\ despawned = {}
    /\ combat_ran = FALSE
    /\ before_build = None
    /\ Loaded

\* The match after setup: the layout's walls, every actor on its spawn point.
Init ==
    /\ occupants = [t \in LayoutWalls |-> WallOccupant]
    /\ nav = regenerate_nav_graph(occupants)
    /\ pos = SpawnPoints
    /\ inv \in StartInventories
    /\ hp = [a \in Actors |-> MaxHp]
    /\ status = [a \in Actors |-> DefaultStatus]
    /\ target = [a \in AiPlayers |-> pos[a]]
    /\ changed = [a \in AiPlayers |-> TRUE]
    /\ follower = [a \in AiPlayers |-> NoFollower]
    /\ rules = [ai |-> FleeRuleSet, enemy |-> TurretOnlyRuleSet]
    /\ inputs = 0
    /\ NoCombat
    /\ last = NoRuleRun

\* The build pipeline: user clicks, scripted builds, repathing and movement.
Next ==
    \/ \E aim \in AimTiles, click \in Clicks :
          handle_build_input(aim, click.right, click.left, click.selected, "North")
    \/ rule_evaluation_system
    \/ pathfinding_system
    \/ \E a \in Actors, d \in MoveDirections : execute_movement(a, d)

Spec == Init /\ [][Next]_vars

-----------------------------------------------------------------------------
(* The user's clicks alone *)

\* The match after setup, the user holding one obstacle and one turret and
\* the scripted actors nothing.
BuildInit ==
    /\ occupants = [t \in LayoutWalls |-> WallOccupant]
    /\ nav = regenerate_nav_graph(occupants)
    /\ pos = SpawnPoints
    /\ inv = [a \in Actors |-> IF a \in Users THEN [obstacles |-> 1, turrets |-> 1]
                                ELSE [obstacles |-> 0, turrets |-> 0]]
    /\ hp = [a \in Actors |-> MaxHp]
    /\ status = [a \in Actors |-> DefaultStatus]
    /\ target = [a \in AiPlayers |-> pos[a]]
    /\ changed = [a \in AiPlayers |-> TRUE]
    /\ follower = [a \in AiPlayers |-> NoFollower]
    /\ rules = [ai |-> FleeRuleSet, enemy |-> TurretOnlyRuleSet]
    /\ inputs = 0
    /\ NoCombat
    /\ last = NoRuleRun

BuildNext ==
    \E aim \in AimTiles, click \in Clicks :
        handle_build_input(aim, click.right, click.left, click.selected, "North")

BuildSpec == BuildInit /\ [][BuildNext]_vars

-----------------------------------------------------------------------------
(* Path following *)

\* The match after setup, one scripted actor bound for any coordinate and the
\* user holding one obstacle.
FollowInit ==
    /\ occupants = [t \in LayoutWalls |-> WallOccupant]
    /\ nav = regenerate_nav_graph(occupants)
    /\ pos = SpawnPoints
    /\ inv = [a \in Actors |-> IF a \in Users THEN [obstacles |-> 1, turrets |-> 0]
                                ELSE [obstacles |-> 0, turrets |-> 0]]
    /\ hp = [a \in Actors |-> MaxHp]
    /\ status = [a \in Actors |-> DefaultStatus]
    /\ \E g \in Coords : target = [ai |-> g, enemy |-> pos["enemy"]]
    /\ changed = [a \in AiPlayers |-> TRUE]
    /\ follower = [a \in AiPlayers |-> NoFollower]
    /\ rules = [a \in AiPlayers |-> TurretOnlyRuleSet]
    /\ inputs = 0
    /\ NoCombat
    /\ last = NoRuleRun

FollowNext ==
    \/ pathfinding_system
    \/ \E reached \in [AiPlayers -> BOOLEAN] : path_following_system(reached)
    \/ \E aim \in AimTiles, click \in Clicks :
          handle_build_input(aim, click.right, click.left, click.selected, "North")
    \/ \E a \in AiPlayers, d \in MoveDirections : follow_movement(a, d)

FollowSpec == FollowInit /\ [][FollowNext]_vars

-----------------------------------------------------------------------------
(* Resource pickup *)

\* The match after setup with empty inventories; every spawner as loaded,
\* with timer 0, or counting down from the respawn time.
PickupInit ==
    /\ occupants = [t \in LayoutWalls |-> WallOccupant]
    /\ nav = regenerate_nav_graph(occupants)
    /\ pos = SpawnPoints
    /\ inv = [a \in Actors |-> [obstacles |-> 0, turrets |-> 0]]
    /\ hp = [a \in Actors |-> MaxHp]
    /\ status = [a \in Actors |-> DefaultStatus]
    /\ target = [a \in AiPlayers |-> pos[a]]
    /\ changed = [a \in AiPlayers |-> FALSE]
    /\ follower = [a \in AiPlayers |-> NoFollower]
    /\ rules = [a \in AiPlayers |-> TurretOnlyRuleSet]
    /\ inputs = 0
    /\ turrets = <<>>
    /\ now = 0
    /\ game_state = "Playing"
    /\ next_state = "Unchanged"
    /\ despawned = {}
    /\ combat_ran = FALSE
    /\ before_build = None
    /\ \E timer \in {0, respawn_time} :
          spawners = [t \in DOMAIN LayoutSpawners |->
                         [ty |-> LayoutSpawners[t], timer |-> timer]]
    /\ collectibles = {}
    /\ controller = [a \in AiPlayers |-> "Zero"]
    /\ last = NoRuleRun

PickupNext ==
    \/ \E dt \in FrameTimes : resource_respawn_system(dt)
    \/ \E near \in [Actors -> SUBSET collectibles] : update_inventory(near)
    \/ \E a \in Actors, d \in MoveDirections : execute_movement(a, d)

PickupSpec == PickupInit /\ [][PickupNext]_vars

-----------------------------------------------------------------------------
(* Combat in a match *)

\* Inventories that hold turrets only.
TurretInventories ==
    [user  |-> [obstacles |-> 0, turrets |-> 1],
     ai    |-> [obstacles |-> 0, turrets |-> 1],
     enemy |-> [obstacles |-> 0, turrets |-> 0]]

\* A match in which the user and one scripted actor hold a turret each and
\* no turret stands, with the user on its spawn point or beside the actor
\* without a turret, and one more controller input explored: at its start,
\* every actor unhurt, or well into it, those two hurt or not.
CombatInit ==
    /\ occupants = [t \in LayoutWalls |-> WallOccupant]
    /\ nav = regenerate_nav_graph(occupants)
    /\ \E u \in {SpawnPoints["user"], SpawnPoints["enemy"]} :
          pos = [SpawnPoints EXCEPT !["user"] = u]
    /\ inv = TurretInventories
    /\ \/ /\ now = 0
          /\ hp = [a \in Actors |-> MaxHp]
       \/ /\ now = MidMatch
          /\ \E u \in {1, MaxHp}, e \in {1, MaxHp} :
                hp = [user |-> u, ai |-> MaxHp, enemy |-> e]
    /\ status = [a \in Actors |-> DefaultStatus]
    /\ target = [a \in AiPlayers |-> pos[a]]
    /\ changed = [a \in AiPlayers |-> FALSE]
    /\ follower = [a \in AiPlayers |-> NoFollower]
    /\ rules = [a \in AiPlayers |-> TurretOnlyRuleSet]
    /\ inputs = MaxInputs - 1
    /\ turrets = <<>>
    /\ game_state = "Playing"
    /\ next_state = "Unchanged"
    /\ despawned = {}
    /\ combat_ran = FALSE
    /\ before_build = None
    /\ Loaded
    /\ last = NoRuleRun

\* The user's facing is read by the turret branch of a right-click only.
Facings(click) ==
    IF click.right /\ click.selected = "Turret" THEN TurretDirections ELSE {"North"}

CombatNext ==
    \/ \E dt \in FrameTimes : begin_frame(dt)
    \/ turret_shooting_system
    \/ \E aim \in Tiles, click \in Clicks :
          \E facing \in Facings(click) :
              handle_build_input(aim, click.right, click.left, click.selected, facing)
    \/ rule_evaluation_system
    \/ \E a \in Actors, d \in MoveDirections : execute_movement(a, d)

CombatSpec == CombatInit /\ [][CombatNext]_vars

-----------------------------------------------------------------------------
(* The rule engine on drawn situations *)

\* A tick in the middle of a match: the user and one scripted actor anywhere on
\* the free tiles, the scripted actor hurt or not, with any of the rule sets.
RuleInit ==
    /\ occupants = [t \in LayoutWalls |-> WallOccupant]
    /\ nav = regenerate_nav_graph(occupants)
    /\ \E u \in FreeTiles, a \in FreeTiles :
          pos = [SpawnPoints EXCEPT !["user"] = u, !["ai"] = a]
    /\ inv \in StartInventories
    /\ \E h \in {1, MaxHp} : hp = [a \in Actors |-> IF a = "ai" THEN h ELSE MaxHp]
    /\ status = [a \in Actors |-> DefaultStatus]
    /\ target = [a \in AiPlayers |-> pos[a]]
    /\ changed = [a \in AiPlayers |-> FALSE]
    /\ follower = [a \in AiPlayers |-> NoFollower]
    /\ \E rs \in RuleSets, re \in {DefaultRuleSet, TurretOnlyRuleSet} :
          rules = [ai |-> rs, enemy |-> re]
    /\ inputs = 0
    /\ NoCombat
    /\ last = NoRuleRun

RuleNext ==
    \/ update_player_status
    \/ rule_evaluation_system
    \/ pathfinding_system

RuleSpec == RuleInit /\ [][RuleNext]_vars

-----------------------------------------------------------------------------
(* The pathfinder on drawn graphs *)

\* Every grid with at most MaxWalls occupied tiles, with the graph either
\* generator builds from it; a start tile and a goal coordinate for one
\* scripted actor, the other one bound for its own tile or the far corner.
PathInit ==
    /\ \E ws \in SUBSET Tiles :
          /\ Cardinality(ws) <= MaxWalls
          /\ occupants = [t \in ws |-> WallOccupant]
    /\ nav \in {regenerate_nav_graph(occupants), pathfinding_regenerate_nav_graph(occupants)}
    /\ \E s \in Tiles : pos = [SpawnPoints EXCEPT !["ai"] = s]
    /\ inv = [a \in Actors |-> [obstacles |-> 0, turrets |-> 0]]
    /\ hp = [a \in Actors |-> MaxHp]
    /\ status = [a \in Actors |-> DefaultStatus]
    /\ \E g \in Coords, e \in {SpawnPoints["enemy"], SpawnPoints["user"]} :
          target = [ai |-> g, enemy |-> e]
    /\ changed = [a \in AiPlayers |-> TRUE]
    /\ follower = [a \in AiPlayers |-> NoFollower]
    /\ rules = [a \in AiPlayers |-> TurretOnlyRuleSet]
    /\ inputs = 0
    /\ NoCombat
    /\ last = NoRuleRun

PathNext == pathfinding_system

PathSpec == PathInit /\ [][PathNext]_vars

\* The same grids before the graph is generated: NavGraph::default() is empty.
GraphInit ==
    /\ \E ws \in SUBSET Tiles :
          /\ Cardinality(ws) <= MaxWalls
          /\ occupants = [t \in ws |-> WallOccupant]
    /\ nav = <<>>
    /\ \E s \in Tiles : pos = [SpawnPoints EXCEPT !["ai"] = s]
    /\ inv = [a \in Actors |-> [obstacles |-> 0, turrets |-> 0]]
    /\ hp = [a \in Actors |-> MaxHp]
    /\ status = [a \in Actors |-> DefaultStatus]
    /\ target = [ai |-> SpawnPoints["user"], enemy |-> SpawnPoints["enemy"]]
    /\ changed = [a \in AiPlayers |-> TRUE]
    /\ follower = [a \in AiPlayers |-> NoFollower]
    /\ rules = [a \in AiPlayers |-> TurretOnlyRuleSet]
    /\ inputs = 0
    /\ NoCombat
    /\ last = NoRuleRun

\* arena::generate_nav_nodes, and the same call of the generator of
\* pathfinding.rs: the graph is rebuilt from the grid.
generate_nav_nodes(graph) ==
    /\ nav # graph
    /\ nav' = graph
    /\ before_build' = None
    /\ last' = NoRuleRun
    /\ UNCHANGED <<occupants, pos, inv, hp, status, target, changed, follower, rules,
                   inputs, turrets, combat_vars, world_vars>>

GraphNext ==
    \/ generate_nav_nodes(regenerate_nav_graph(occupants))
    \/ generate_nav_nodes(pathfinding_regenerate_nav_graph(occupants))
    \/ pathfinding_system

GraphSpec == GraphInit /\ [][GraphNext]_vars

\* The same grids with the two scripted actors on two tiles, each bound for
\* the tile of the other.
SymInit ==
    /\ \E ws \in SUBSET Tiles :
          /\ Cardinality(ws) <= MaxWalls
          /\ occupants = [t \in ws |-> WallOccupant]
    /\ nav \in {regenerate_nav_graph(occupants), pathfinding_regenerate_nav_graph(occupants)}
    /\ \E a \in Tiles, b \in Tiles :
          /\ pos = [SpawnPoints EXCEPT !["ai"] = a, !["enemy"] = b]
          /\ target = [ai |-> b, enemy |-> a]
    /\ inv = [a \in Actors |-> [obstacles |-> 0, turrets |-> 0]]
    /\ hp = [a \in Actors |-> MaxHp]
    /\ status = [a \in Actors |-> DefaultStatus]
    /\ changed = [a \in AiPlayers |-> TRUE]
    /\ follower = [a \in AiPlayers |-> NoFollower]
    /\ rules = [a \in AiPlayers |-> TurretOnlyRuleSet]
    /\ inputs = 0
    /\ NoCombat
    /\ last = NoRuleRun

SymNext == pathfinding_system

SymSpec == SymInit /\ [][SymNext]_vars

\* A grid of 5 by 5 tiles whose column 2 is occupied from row 0 to row 3, and
\* one scripted actor searching from any tile to any tile of it.
BlockedColumn == {<<2, 0>>, <<2, 1>>, <<2, 2>>, <<2, 3>>}

BlockedInit ==
    /\ occupants = [t \in BlockedColumn |-> WallOccupant]
    /\ nav \in {regenerate_nav_graph_sized(5, 5, occupants),
                pathfinding_regenerate_nav_graph_sized(5, 5, occupants)}
    /\ \E a \in (0 .. 4) \X (0 .. 4), b \in (0 .. 4) \X (0 .. 4) :
          /\ pos = [user |-> <<4, 4>>, ai |-> a, enemy |-> <<4, 4>>]
          /\ target = [ai |-> b, enemy |-> <<4, 4>>]
    /\ inv = [a \in Actors |-> [obstacles |-> 0, turrets |-> 0]]
    /\ hp = [a \in Actors |-> MaxHp]
    /\ status = [a \in Actors |-> DefaultStatus]
    /\ changed = [a \in AiPlayers |-> TRUE]
    /\ follower = [a \in AiPlayers |-> NoFollower]
    /\ rules = [a \in AiPlayers |-> TurretOnlyRuleSet]
    /\ inputs = 0
    /\ NoCombat
    /\ last = NoRuleRun

BlockedNext == pathfinding_system

BlockedSpec == BlockedInit /\ [][BlockedNext]_vars

-----------------------------------------------------------------------------
(* Nav graph and build pipeline (C1 - C6) *)

\* C1: after every tick, a coordinate is a node of the nav graph if and only
\* if it is a grid tile and has no occupant.
NavGraphMatchesGrid ==
    \A c \in Coords : c \in DOMAIN nav <=> (c \in Tiles /\ c \notin DOMAIN occupants)

\* C2: every step that builds or destroys an occupant leaves the target
\* destination of every scripted actor marked changed.
BuildMarksTargetsDirty ==
    [][occupants' # occupants => \A a \in AiPlayers : changed'[a]]_vars

\* C3: every key of the occupants map is an in-bounds tile coordinate.
OccupantsInBounds == DOMAIN occupants \subseteq Tiles

\* C4: the user never places an occupant on a tile another actor stands on.
UserBuildAvoidsActors ==
    [][\A t \in DOMAIN occupants' \ DOMAIN occupants :
          occupants'[t].owner = "user" => \A o \in Actors \ {"user"} : pos[o] # t]_vars

\* A build request of `builder` for `kind` on `tile` that breaks a precondition:
\* the tile is occupied, the inventory of the kind is zero, or another actor
\* stands on the tile of a user-driven build.
ViolatesPrecondition(builder, tile, kind) ==
    \/ tile \in DOMAIN occupants
    \/ kind = "Obstacle" /\ inv[builder].obstacles = 0
    \/ kind = "Turret" /\ inv[builder].turrets = 0
    \/ builder = "user" /\ \E o \in Actors \ {"user"} : pos[o] = tile

\* C5: a build request that breaks a precondition leaves the occupants map,
\* the nav graph and every inventory as they were (a user's right-click), and
\* adds nothing for the builder nor takes from its inventory (a scripted build).
RefusedBuildChangesNothing ==
    [][/\ \A aim \in AimTiles, kind \in {"Obstacle", "Turret"}, facing \in TurretDirections :
            (/\ handle_build_input(aim, TRUE, FALSE, kind, facing)
             /\ ViolatesPrecondition("user", <<AsU32(aim[1]), AsU32(aim[2])>>, kind))
                => UNCHANGED <<occupants, nav, inv>>
       /\ \A a \in AiPlayers : \A i \in 1 .. Len(rules[a]) :
            (/\ last'.rules_ran
             /\ last'.executed[a] = <<i>>
             /\ rules[a][i].action.k = "Build"
             /\ ViolatesPrecondition(a, pos[a], rules[a][i].action.structure))
                => /\ inv'[a] = inv[a]
                   /\ \A t \in DOMAIN occupants' \ DOMAIN occupants :
                         occupants'[t].owner # a]_vars

\* The tiles on which `a` has placed an occupant of type `ty` in this step.
NewlyBuilt(a, ty) ==
    {t \in DOMAIN occupants' :
        /\ occupants'[t] = [ty |-> ty, owner |-> a]
        /\ (t \in DOMAIN occupants => occupants[t] # occupants'[t])}

\* C6: no inventory count wraps below zero; a step takes at most one item of
\* one kind from an actor; an actor that places an occupant had at least one
\* item of its kind and has exactly one less afterwards, the other kind as before.
InventoryNeverWraps ==
    [][\A a \in Actors :
          /\ inv'[a].obstacles >= 0 /\ inv'[a].turrets >= 0
          /\ inv'[a].obstacles \in {inv[a].obstacles, inv[a].obstacles - 1}
          /\ inv'[a].turrets \in {inv[a].turrets, inv[a].turrets - 1}
          /\ inv'[a].obstacles = inv[a].obstacles \/ inv'[a].turrets = inv[a].turrets
          /\ NewlyBuilt(a, "Obstacle") # {} =>
                /\ inv[a].obstacles >= 1
                /\ inv'[a].obstacles = inv[a].obstacles - 1
                /\ inv'[a].turrets = inv[a].turrets
          /\ NewlyBuilt(a, "Turret") # {} =>
                /\ inv[a].turrets >= 1
                /\ inv'[a].turrets = inv[a].turrets - 1
                /\ inv'[a].obstacles = inv[a].obstacles]_vars

\* The user and a scripted actor have each spent their last obstacle on a
\* tile that now holds it.
BuildsSpentInventory ==
    /\ inv["user"].obstacles = 0
    /\ inv["ai"].obstacles = 0
    /\ \E t \in DOMAIN occupants : occupants[t] = Obstacle("user")
    /\ \E t \in DOMAIN occupants : occupants[t] = Obstacle("ai")

-----------------------------------------------------------------------------
(* Rule engine (C7 - C9) *)

\* The declaration indices of the rules of `a` whose condition holds.
Matching(a) ==
    {i \in 1 .. Len(rules[a]) :
        evaluate_condition(rules[a][i].condition, status[a], hp[a], inv[a])}

\* The matching rule of highest priority, the first declared among equals.
BestRule(a) ==
    IF Matching(a) = {} THEN <<>>
    ELSE << CHOOSE i \in Matching(a) : \A j \in Matching(a) :
               \/ rules[a][i].priority > rules[a][j].priority
               \/ rules[a][i].priority = rules[a][j].priority /\ i <= j >>

\* C7: in every run of the rule engine each scripted actor executes exactly
\* the matching rule of highest priority, the first declared among rules of
\* equal priority, and nothing when no rule matches.
HighestPriorityRuleOnly ==
    [][last'.rules_ran => \A a \in AiPlayers : last'.executed[a] = BestRule(a)]_vars

\* A run in which one actor's choice was a tie of priority broken by
\* declaration order and the other actor had no matching rule.
TieBrokenByDeclaration ==
    /\ last.rules_ran
    /\ rules["ai"] = TieRuleSet
    /\ status["ai"].visible_players # {}
    /\ last.executed["ai"] \in {<<2>>, <<3>>}
    /\ rules["enemy"] = TurretOnlyRuleSet
    /\ last.executed["enemy"] = <<>>

\* The target a movement action computes for `a`, None where it computes none.
ComputedTarget(a, action) ==
    CASE action.k = "MoveToArea" -> get_center(action.area)
      [] action.k = "ChaseEnemy" -> status[a].nearest_enemy_position
      [] action.k = "Flee" ->
            IF status[a].nearest_enemy_position = None THEN None
            ELSE flee_target(pos[a], status[a].nearest_enemy_position)
      [] OTHER -> None

\* C8: when the executed action computes a target equal to the actor's target
\* destination, the destination keeps its value and its change mark; and only
\* an actor whose destination is marked changed gets a new path.
IdempotentTargetWrite ==
    [][/\ \A a \in AiPlayers : \A i \in 1 .. Len(rules[a]) :
            (/\ last'.rules_ran
             /\ last'.executed[a] = <<i>>
             /\ ComputedTarget(a, rules[a][i].action) = target[a])
                => target'[a] = target[a] /\ changed'[a] = changed[a]
       /\ \A a \in AiPlayers : ~changed[a] => follower'[a] = follower[a]]_vars

\* A run of the rule engine has recomputed the target an actor already had,
\* and the target is not marked changed.
TargetRecomputedUnmarked ==
    /\ last.rules_ran
    /\ \E a \in AiPlayers : \E i \in 1 .. Len(rules[a]) :
          /\ last.executed[a] = <<i>>
          /\ ComputedTarget(a, rules[a][i].action) = target[a]
          /\ ~changed[a]
          /\ follower[a].path # <<>>

\* C9: the target written by Flee is self + (self - enemy) clamped to
\* [0, W-1] x [0, H-1], an in-bounds tile coordinate.
FleeTargetInBounds ==
    [][\A a \in AiPlayers : \A i \in 1 .. Len(rules[a]) :
          (/\ last'.rules_ran
           /\ last'.executed[a] = <<i>>
           /\ rules[a][i].action.k = "Flee"
           /\ status[a].nearest_enemy_position # None)
              => LET e == status[a].nearest_enemy_position
                 IN  /\ target'[a] = <<Clamp(2 * pos[a][1] - e[1], 0, W - 1),
                                       Clamp(2 * pos[a][2] - e[2], 0, H - 1)>>
                     /\ InBounds(target'[a])]_vars

-----------------------------------------------------------------------------
(* Pathfinder (C10) *)

\* The end points of the edges of the graph that leave p.
Successors(p, graph) ==
    IF p \in DOMAIN graph THEN {graph[p][k] : k \in 1 .. Len(graph[p])} ELSE {}

\* The coordinates reachable from the set S along at most k edges of the graph.
RECURSIVE ReachableWithin(_, _, _)
ReachableWithin(S, graph, k) ==
    IF k = 0 THEN S
    ELSE ReachableWithin(UNION {{p} \cup Successors(p, graph) : p \in S}, graph, k - 1)

\* The coordinates reachable from start: no shortest path has more edges than
\* the graph has nodes.
ReachableFrom(start, graph) == ReachableWithin({start}, graph, Cardinality(DOMAIN graph))

IsPath(path, start, goal, graph) ==
    /\ Len(path) >= 1
    /\ path[1] = start
    /\ path[Len(path)] = goal
    /\ \A k \in 1 .. Len(path) - 1 :
          /\ path[k] \in DOMAIN graph
          /\ \E j \in 1 .. Len(graph[path[k]]) : graph[path[k]][j] = path[k + 1]

\* C10: the pathfinder gives an actor a path exactly when its goal is
\* reachable from its tile in the graph; the path starts at the tile, ends at
\* the goal and follows edges of the graph; otherwise the actor gets none.
FindPathCorrect ==
    [][\A a \in AiPlayers :
          (changed[a] /\ ~changed'[a]) =>
              IF target[a] \in ReachableFrom(pos[a], nav)
              THEN /\ follower'[a].current_index = 0
                   /\ IsPath(follower'[a].path, pos[a], target[a], nav)
              ELSE follower'[a] = follower[a]]_vars

\* The pathfinder has run: one actor got a path of three tiles or more, the
\* other one, whose goal is cut off, got none.
PathFoundAndNotFound ==
    /\ ~changed["ai"] /\ ~changed["enemy"]
    /\ Len(follower["ai"].path) >= 3
    /\ target["enemy"] # pos["enemy"]
    /\ follower["enemy"] = NoFollower

\* C11: the pathfinder gives no path to an actor whose tile or whose goal is
\* not a node of the nav graph, also when the actor's tile is its goal.
NoPathOutsideGraph ==
    [][\A a \in AiPlayers :
          (/\ changed[a] /\ ~changed'[a]
           /\ (pos[a] \notin DOMAIN nav \/ target[a] \notin DOMAIN nav))
              => follower'[a] = follower[a]]_vars

-----------------------------------------------------------------------------
(* Blocked path (C13) *)

\* The search from (0,0) to (4,0) has been made on the blocked grid.
CrossedBlockedGrid ==
    /\ ~changed["ai"]
    /\ pos["ai"] = <<0, 0>>
    /\ target["ai"] = <<4, 0>>

OnPath(t, path) == \E i \in 1 .. Len(path) : path[i] = t

\* C13 as stated: on the blocked grid of 5 by 5, the path found from (0,0) to
\* (4,0) has nine tiles and passes through (2,4).
BlockedPathNineTiles ==
    CrossedBlockedGrid =>
        /\ Len(follower["ai"].path) = 9
        /\ OnPath(<<2, 4>>, follower["ai"].path)

\* C13 amended: on the blocked grid of 5 by 5, the path found from (0,0) to
\* (4,0) passes through (2,4) and has eleven tiles in the eight-direction
\* graph, thirteen in the four-direction graph.
BlockedPathAroundColumn ==
    CrossedBlockedGrid =>
        /\ OnPath(<<2, 4>>, follower["ai"].path)
        /\ nav = pathfinding_regenerate_nav_graph_sized(5, 5, occupants)
               => Len(follower["ai"].path) = 11
        /\ nav = regenerate_nav_graph_sized(5, 5, occupants)
               => Len(follower["ai"].path) = 13

\* The search has been made in the eight-direction graph and found a path.
CrossedEightWay ==
    /\ CrossedBlockedGrid
    /\ nav = pathfinding_regenerate_nav_graph_sized(5, 5, occupants)
    /\ follower["ai"].path # <<>>

-----------------------------------------------------------------------------
(* Line of sight (C14) *)

\* C14: line of sight is symmetric between the tiles of any two actors,
\* occupied tiles included.
LineOfSightSymmetric ==
    \A a \in Actors, o \in Actors :
        has_line_of_sight(pos[a], pos[o], occupants)
            = has_line_of_sight(pos[o], pos[a], occupants)

-----------------------------------------------------------------------------
(* Build then destroy (C15) *)

\* The user's inventory `i` is that of the snapshot `b` less one of the kind built.
OneSpent(b, i) ==
    IF b.kind = "Obstacle"
    THEN i["user"].obstacles = b.inv["user"].obstacles - 1
    ELSE i["user"].turrets = b.inv["user"].turrets - 1

\* The tile of the user's last build is emptied by the click that built on it.
BuiltAndDestroyedAtOnce ==
    /\ before_build' # None
    /\ before_build'[1].tile \notin DOMAIN occupants'

\* The tile of the user's last build is emptied by the click that follows it.
DestroyedNext ==
    /\ before_build # None
    /\ before_build[1].tile \in DOMAIN occupants
    /\ inputs' # inputs
    /\ before_build[1].tile \notin DOMAIN occupants'

\* C15: when the user builds on an empty tile and the next thing done is a
\* destroy on that tile, the occupants map and the nav graph are as they were
\* before the build and the user holds one less of the kind built.
BuildThenDestroyRestores ==
    [][/\ BuiltAndDestroyedAtOnce =>
            /\ occupants' = before_build'[1].occupants
            /\ nav' = before_build'[1].nav
            /\ OneSpent(before_build'[1], inv')
       /\ DestroyedNext =>
            /\ occupants' = before_build[1].occupants
            /\ nav' = before_build[1].nav
            /\ OneSpent(before_build[1], inv')]_vars

-----------------------------------------------------------------------------
(* Turret combat (C16 - C20) *)

\* The events the last step added to the match log.
Logged(log) == {log[i] : i \in 1 .. Len(log)}

\* The turret on `tile` fired in the step that wrote `log`.
Fired(tile, log) == \E e \in Logged(log) : e.k = "DamageDealt" /\ e.turret = tile

\* C16: a turret fires only when now - last_shot >= 4, a shot sets last_shot
\* to the time of the shot, and last_shot changes in no other way, so that two
\* shots of a turret are 4 seconds apart or more.
CooldownRespected ==
    [][\A tile \in DOMAIN turrets :
          /\ Fired(tile, last'.events) =>
                /\ now - turrets[tile].last_shot >= TURRET_COOLDOWN
                /\ tile \in DOMAIN turrets'
                /\ turrets'[tile].last_shot = now
          /\ (tile \in DOMAIN turrets' /\ turrets'[tile] # turrets[tile]) =>
                Fired(tile, last'.events)]_vars

\* The user's turret has just hit the actor "ai" for the second time: no
\* other turret can hit it, and it started the match unhurt.
SecondShot ==
    /\ hp["ai"] = MaxHp - 2
    /\ \E e \in Logged(last.events) :
          /\ e.k = "DamageDealt" /\ e.victim = "ai"
          /\ e.turret \in DOMAIN turrets
          /\ turrets[e.turret].last_shot = now

\* C17: every turret a build creates, the user's or a scripted actor's, has
\* last_shot = now - cooldown and so is ready to fire at once.
TurretsBuiltOffCooldown ==
    [][\A tile \in DOMAIN turrets' \ DOMAIN turrets :
          /\ turrets'[tile].last_shot = now - TURRET_COOLDOWN
          /\ is_active(turrets'[tile], now)]_vars

\* C18: when a shot takes an actor's HP to zero, PlayerEliminated is logged in
\* that step; the user is not despawned and GameOver is requested, and is the
\* game state from the next frame on; any other actor is despawned.
EliminationHandled ==
    [][/\ \A a \in Actors :
            (hp[a] > 0 /\ hp'[a] = 0) =>
                /\ \E e \in Logged(last'.events) : e.k = "PlayerEliminated" /\ e.entity = a
                /\ a \in Users => (next_state' = "GameOver" /\ a \notin despawned')
                /\ a \notin Users => a \in despawned'
       /\ (next_state = "GameOver" /\ now' # now) => game_state' = "GameOver"]_vars

\* A shot has just eliminated the user, after another actor was eliminated
\* and despawned.
UserAndActorEliminated ==
    /\ hp["user"] = 0
    /\ "user" \notin despawned
    /\ next_state = "GameOver"
    /\ \E e \in Logged(last.events) : e.k = "PlayerEliminated" /\ e.entity = "user"
    /\ despawned # {}

\* C19: once the game state is GameOver, no actor's HP changes.
NoDamageAfterGameOver ==
    [][game_state = "GameOver" => hp' = hp]_vars

\* The game is over in a frame in which a turret is off cooldown with an
\* actor in its cone, and the combat system has not run.
TurretReadyAfterGameOver ==
    /\ game_state = "GameOver"
    /\ ~combat_ran
    /\ \E tile \in DOMAIN turrets, rank \in QueryRanks :
          /\ is_active(turrets[tile], now)
          /\ closest_target(tile, turrets[tile], rank) # None

\* C20: once the game state is GameOver, no actor's position changes.
NoMovementAfterGameOver ==
    [][game_state = "GameOver" => pos' = pos]_vars

-----------------------------------------------------------------------------
(* Game state (C21) *)

\* C21: the game state starts as Playing, and the only change it ever makes is
\* from Playing to GameOver: once GameOver, it is GameOver in every later frame.
GameOverIsTerminal ==
    /\ game_state = "Playing"
    /\ [][game_state' # game_state =>
              (game_state = "Playing" /\ game_state' = "GameOver")]_vars

\* The game has been over for two frames or more: a turret's shot eliminated
\* the user longer ago than one frame takes.
GameOverHeld ==
    /\ game_state = "GameOver"
    /\ hp["user"] = 0
    /\ \E tile \in DOMAIN turrets :
          /\ turrets[tile].owner \notin Users
          /\ \A dt \in FrameTimes : now - turrets[tile].last_shot > dt

-----------------------------------------------------------------------------
(* Unreachable target (C22) *)

\* The next run of the path follower gives the actor zero movement input.
issues_zero(a) == \A reached \in BOOLEAN : follow(a, reached).controller = "Zero"

\* C22: when the pathfinder finds no path to the changed target destination
\* of a scripted actor, the target destination keeps its value and the path
\* follower idles: its next run gives the actor zero movement input, whatever
\* path the actor had before.
NoPathMeansIdle ==
    [][\A a \in AiPlayers :
          (/\ changed[a] /\ ~changed'[a]
           /\ find_path(pos[a], target[a], nav) = None)
              => /\ target'[a] = target[a]
                 /\ issues_zero(a)']_vars

-----------------------------------------------------------------------------
(* Shape of the nav graph (C23) *)

Diagonal(p, n) == Abs(n[1] - p[1]) = 1 /\ Abs(n[2] - p[2]) = 1

Adjacent(p, n) == n # p /\ Abs(n[1] - p[1]) <= 1 /\ Abs(n[2] - p[2]) <= 1

\* C23: in a nav graph either generator builds from the grid, every neighbour
\* listed for a node is a node itself and is cardinally or diagonally adjacent
\* to it, and a diagonal neighbour is listed only when neither of the two
\* tiles beside the step is occupied.
NavGraphWellFormed ==
    \A p \in DOMAIN nav : \A k \in 1 .. Len(nav[p]) :
        LET n == nav[p][k]
        IN  /\ n \in DOMAIN nav
            /\ Adjacent(p, n)
            /\ Diagonal(p, n) =>
                  /\ <<p[1], n[2]>> \notin DOMAIN occupants
                  /\ <<n[1], p[2]>> \notin DOMAIN occupants

\* The pathfinder has searched a generated graph with a diagonal edge between
\* two nodes, and with two other diagonal nodes that have no edge because a
\* tile beside the step is occupied.
DiagonalKeptAndCut ==
    /\ ~changed["ai"]
    /\ \E p \in DOMAIN nav, n \in DOMAIN nav :
          Diagonal(p, n) /\ n \in Successors(p, nav)
    /\ \E p \in DOMAIN nav, n \in DOMAIN nav :
          /\ Diagonal(p, n)
          /\ n \notin Successors(p, nav)
          /\ nav = pathfinding_regenerate_nav_graph(occupants)

-----------------------------------------------------------------------------
(* Match log (C24) *)

\* C24: every step logs what it changes: a StructureBuilt event for every
\* tile that gets an occupant, a StructureDestroyed event for every tile that
\* loses one, and a DamageDealt event for every actor that loses HP.
EveryMutationLogged ==
    [][/\ \A t \in DOMAIN occupants' \ DOMAIN occupants :
            \E e \in Logged(last'.events) : e.k = "StructureBuilt" /\ e.location = t
       /\ \A t \in DOMAIN occupants \ DOMAIN occupants' :
            \E e \in Logged(last'.events) : e.k = "StructureDestroyed" /\ e.location = t
       /\ \A a \in Actors :
            hp'[a] < hp[a] =>
                \E e \in Logged(last'.events) : e.k = "DamageDealt" /\ e.victim = a]_vars

-----------------------------------------------------------------------------
(* Resource spawners (C25) *)

\* The collectible of the spawner on `tile` is out.
Produced(tile, cs) == \E c \in cs : c.tile = tile

\* C25: after every run of the respawn system, each spawner has its
\* collectible out or is counting down to the next one, so that a spawner
\* loaded with timer 0 produces its collectible at once; and a step that
\* collects a spawner's collectible leaves the spawner counting down.
SpawnerProducesAndRespawns ==
    [][/\ last'.respawn_ran =>
            \A t \in DOMAIN spawners' :
                Produced(t, collectibles') \/ spawners'[t].timer > 0
       /\ \A a \in Actors : \A c \in last'.collected[a] :
            spawners'[c.tile].timer > 0]_vars

-----------------------------------------------------------------------------
(* Turret targeting (C26) *)

\* The actors a turret may hit: every actor but the owner closer than 15
\* units and at most 45 degrees off the turret's direction
\* (cos^2 >= 1/2, towards the front).
Eligible(tile, t) ==
    {a \in Actors \ despawned :
        LET v   == to_target(tile, t, pos[a])
            dir == to_vec3(t.direction)
            par == v[1] * dir[1] + v[3] * dir[2]
        IN  /\ a # t.owner
            /\ length_squared(v) < 100 * TURRET_RANGE * TURRET_RANGE
            /\ par > 0
            /\ 2 * par * par >= length_squared(v)}

\* The number of DamageDealt events of `log` that name the victim `a`.
Hits(a, log) ==
    Cardinality({i \in 1 .. Len(log) : log[i].k = "DamageDealt" /\ log[i].victim = a})

\* A turret that fires hits an actor that is not its owner and is the
\* nearest of those it may hit; a turret with nobody to hit does not fire
\* and keeps its last_shot.
HitsNearestEligible ==
    \A tile \in DOMAIN turrets :
        LET t    == turrets[tile]
            elig == Eligible(tile, t)
            dist(a) == length_squared(to_target(tile, t, pos[a]))
        IN  /\ \A e \in Logged(last'.events) :
                  (e.k = "DamageDealt" /\ e.turret = tile) =>
                      /\ e.victim # t.owner
                      /\ e.victim \in elig
                      /\ \A b \in elig : dist(e.victim) <= dist(b)
            /\ (combat_ran' /\ ~combat_ran /\ elig = {}) =>
                  /\ ~Fired(tile, last'.events)
                  /\ turrets'[tile].last_shot = t.last_shot

\* C26: a turret that fires hits the nearest actor within 15 units and 45
\* degrees of its direction, never its owner; a turret with nobody to hit
\* does not fire and keeps its last_shot; and every shot takes exactly 1 HP
\* from its victim, whose HP never goes below zero.
TurretHitsNearest ==
    [][/\ HitsNearestEligible
       /\ \A a \in Actors :
            /\ hp'[a] >= 0
            /\ hp[a] - hp'[a] = TURRET_DAMAGE * Hits(a, last'.events)]_vars

-----------------------------------------------------------------------------
(* Eliminations (C27) *)

\* The number of PlayerEliminated events of `log` for the actor `a`.
Eliminations(a, log) ==
    Cardinality({i \in 1 .. Len(log) : log[i].k = "PlayerEliminated" /\ log[i].entity = a})

\* C27: a step logs at most one PlayerEliminated for an actor, and none for
\* an actor whose HP was zero already, so that no actor is ever eliminated
\* twice; and every DamageDealt of a step finds HP left on its victim, the
\* hits of the same step before it counted.
OneEliminationPerActor ==
    [][\A a \in Actors :
          /\ Eliminations(a, last'.events) <= (IF hp[a] > 0 THEN 1 ELSE 0)
          /\ Hits(a, last'.events) > 0 =>
                TURRET_DAMAGE * (Hits(a, last'.events) - 1) < hp[a]]_vars

-----------------------------------------------------------------------------
(* Pickup (C28) *)

\* What the step adds to the inventory of `a`.
Gain(a) ==
    (inv'[a].obstacles - inv[a].obstacles) + (inv'[a].turrets - inv[a].turrets)

-----------------------------------------------------------------------------
(* Builds on occupied tiles (C29) *)

\* The actor `a` has placed an occupant on `tile`, free before the step.
BuiltOnFree(a, tile) ==
    /\ tile \notin DOMAIN occupants
    /\ tile \in DOMAIN occupants'
    /\ occupants'[tile].owner = a

\* The user's click has built on a free tile and destroyed what it built.
BuiltAndDestroyedOnFree ==
    /\ BuiltAndDestroyedAtOnce
    /\ before_build'[1].tile \notin DOMAIN occupants

\* C29: a tile that is and stays occupied keeps its occupant, so that an
\* occupant changes only by being destroyed; and an actor's inventory is
\* debited only by a build of its own on a tile that was free, a scripted
\* actor's on the tile it stands on, whatever the order in which the actors
\* are evaluated: of the requests for one tile one succeeds at most.
BuildNeverReplaces ==
    [][/\ \A t \in DOMAIN occupants \cap DOMAIN occupants' : occupants'[t] = occupants[t]
       /\ \A a \in AiPlayers : inv'[a] # inv[a] => BuiltOnFree(a, pos[a])
       /\ \A a \in Users :
            inv'[a] # inv[a] =>
                \/ \E t \in DOMAIN occupants' : BuiltOnFree(a, t)
                \/ BuiltAndDestroyedOnFree]_vars

\* A run of the rule engine in which the two scripted actors stood on one
\* tile and each executed a Build: the tile holds the build of one, and the
\* other still has its item.
SecondBuildRefused ==
    /\ last.rules_ran
    /\ pos["ai"] = pos["enemy"]
    /\ pos["ai"] \in DOMAIN occupants
    /\ \A a \in AiPlayers :
          /\ Len(last.executed[a]) = 1
          /\ rules[a][last.executed[a][1]].action.k = "Build"
    /\ \E a \in AiPlayers :
          /\ occupants[pos[a]].owner \in AiPlayers \ {a}
          /\ inv[a].obstacles + inv[a].turrets > 0

-----------------------------------------------------------------------------
(* Rules without effect (C30) *)

\* The action can change nothing for the actor `a`: a Build on an occupied
\* tile or without the item, a ChaseEnemy or Flee without a nearest enemy, a
\* MoveToArea to an area without a centre.
NoEffect(a, action) ==
    CASE action.k = "Build" ->
            \/ pos[a] \in DOMAIN occupants
            \/ action.structure = "Obstacle" /\ inv[a].obstacles = 0
            \/ action.structure = "Turret" /\ inv[a].turrets = 0
      [] action.k \in {"ChaseEnemy", "Flee"} -> status[a].nearest_enemy_position = None
      [] action.k = "MoveToArea" -> get_center(action.area) = None
      [] OTHER -> FALSE

\* C30: when the action of the matching rule of highest priority can change
\* nothing, the run executes that rule and no other for the actor, and the
\* actor's target destination, its change mark and its inventory are as
\* before and no tile gets an occupant of the actor.
NoFallThrough ==
    [][\A a \in AiPlayers : \A i \in 1 .. Len(rules[a]) :
          (/\ last'.rules_ran
           /\ BestRule(a) = <<i>>
           /\ NoEffect(a, rules[a][i].action))
              => /\ last'.executed[a] = <<i>>
                 /\ target'[a] = target[a]
                 /\ changed'[a] = changed[a]
                 /\ inv'[a] = inv[a]
                 /\ \A t \in DOMAIN occupants' :
                       occupants'[t].owner = a =>
                           (t \in DOMAIN occupants /\ occupants[t] = occupants'[t])]_vars

\* A run in which an actor holding an item executed a Build on a tile that
\* holds the occupant of another actor, while a rule of lower priority
\* matched as well.
BuildWithoutEffect ==
    /\ last.rules_ran
    /\ \E a \in AiPlayers : \E i \in 1 .. Len(rules[a]) :
          /\ last.executed[a] = <<i>>
          /\ rules[a][i].action.k = "Build"
          /\ pos[a] \in DOMAIN occupants
          /\ occupants[pos[a]].owner # a
          /\ inv[a].obstacles + inv[a].turrets > 0
          /\ \E j \in Matching(a) : rules[a][j].priority < rules[a][i].priority

=============================================================================
